---- MODULE Spec2Model ----
(***************************************************************************)
(* The RFP / bid workflow of rfp-mvp.                                      *)
(*                                                                         *)
(*   Spec       the client orchestrator of src/app/page.tsx: React state,  *)
(*              its effects, the durable store and the requests in flight. *)
(*              One action is one event handler (or one request            *)
(*              completion) followed by the render it causes and the       *)
(*              effects of that render.                                    *)
(*   SpecRoute  one invocation of a server route (process-rfp,             *)
(*              process-bid, analyze-all), stepped statement by statement. *)
(*   SpecView   one bid card of the page, collapsed and expanded.          *)
(*                                                                         *)
(* An optional value (T | null) is a sequence of length at most one:       *)
(* <<>> is null, <<v>> is the value v.                                     *)
(***************************************************************************)
EXTENDS Integers, Sequences, FiniteSets, TLC

\* ------------------------------------------------------------------ bounds
MaxFiles    == 2     \* valid files the user selects or drops
MaxRequests == 3     \* requests the orchestrator issues
MaxResets   == 2     \* clicks on "Start New Project"
MaxBidRequirements == 2   \* assessed requirements of a bid sent to analyze-all

\* ------------------------------------------------------- program constants
STORAGE_KEY == "rfp-bid-project"
maxSize     == 10 * 1024 * 1024
PDF         == "application/pdf"

Null == <<>>
Some(v) == <<v>>

VARIABLES
    \* React state of Home()
    rfpFile, isRfpUploading, rfpData,
    bidFile, isBidUploading, bids,
    analysisData, isAnalyzing, error,
    \* the browser
    mounted,          \* the first render has been committed
    localStorage,     \* the item under STORAGE_KEY, or Null
    requests,         \* fetch() calls awaiting their response
    \* history
    issued,           \* every request ever issued, in order of issue
    fileCount,        \* valid files selected so far
    resets,           \* Resets so far
    last,             \* the handler that ran last
    \* one server route invocation (SpecRoute)
    route, form, routePc, blobUrl, events, response,
    prompt,           \* what the route computed for the model instruction
    \* one bid card of the page (SpecView)
    card,             \* the requirements of the bid on the card
    expandedBidIndex, \* Some(0) while the card is expanded
    expandedView      \* the requirement list rendered in the expanded card

uiVars    == <<rfpFile, isRfpUploading, rfpData, bidFile, isBidUploading, bids,
               analysisData, isAnalyzing, error, mounted, localStorage,
               requests, issued, fileCount, resets, last>>
routeVars == <<route, form, routePc, blobUrl, events, response, prompt>>
viewVars  == <<card, expandedBidIndex, expandedView>>
vars      == <<uiVars, routeVars, viewVars>>

\* ------------------------------------------------------------- data values
Req1 == [text |-> "t1", category |-> "c1"]
Req2 == [text |-> "t2", category |-> "c2"]
\* a requirement whose text runs over two lines
Req3 == [text |-> "t3\nt4", category |-> "c3"]

\* requirement lists the extraction model may return
RfpRequirementLists == { <<>>, <<Req1, Req2>> }

FileTypes == { PDF, "text/plain" }
FileSizes == { maxSize, maxSize + 1 }

\* ------------------------------------------------------------ localStorage
\* A JSON text is the value it denotes, member by member: null, an object or
\* an array; a text that denotes nothing is not well-formed.
JsonNull        == [kind |-> "null", items |-> <<>>]
JsonArray(seq)  == [kind |-> "array", items |-> seq]

\* a nullable object as JSON, and back
JsonOf(o)  == IF o = Null THEN JsonNull ELSE [kind |-> "object", items |-> o]
ValueOf(j) == IF j.kind = "null" THEN Null ELSE j.items

\* The text JSON.stringify produces for {rfpData, bids, analysisData}.
JSONstringify(p) ==
    [wellFormed |-> TRUE, rfpData |-> JsonOf(p.rfpData),
     bids |-> JsonArray(p.bids), analysisData |-> JsonOf(p.analysisData)]

\* A text JSON.parse throws on.
CorruptText ==
    [wellFormed |-> FALSE, rfpData |-> JsonNull, bids |-> JsonNull,
     analysisData |-> JsonNull]

\* JSON.parse: ok = FALSE when it throws
JSONparse(text) ==
    IF text.wellFormed
    THEN [ok |-> TRUE,
          data |-> [rfpData |-> ValueOf(text.rfpData), bids |-> text.bids.items,
                    analysisData |-> ValueOf(text.analysisData)]]
    ELSE [ok |-> FALSE,
          data |-> [rfpData |-> Null, bids |-> <<>>, analysisData |-> Null]]

\* A project saved by an earlier session (request id 0 = before this session).
SavedProject ==
    [rfpData      |-> Some([req |-> 0, requirements |-> <<Req1, Req2>>]),
     bids         |-> << [req |-> 0, requirements |-> <<TRUE, FALSE>>] >>,
     analysisData |-> Some([req |-> 0, recommendation |-> 1,
                            recommendationReason |-> "reason",
                            openQuestions |-> <<0>>])]

InitialStores == { Null, Some(CorruptText), Some(JSONstringify(SavedProject)) }

\* ------------------------------------------------------------- React state
S == [rfpFile |-> rfpFile, isRfpUploading |-> isRfpUploading, rfpData |-> rfpData,
      bidFile |-> bidFile, isBidUploading |-> isBidUploading, bids |-> bids,
      analysisData |-> analysisData, isAnalyzing |-> isAnalyzing, error |-> error,
      localStorage |-> localStorage, requests |-> requests, issued |-> issued]

\* fetch(): the request goes in flight
Fetch(s, stage, file, reqs, body) ==
    LET id == Len(s.issued) + 1 IN
    [s EXCEPT
       !.requests = @ \cup { [id |-> id, stage |-> stage, file |-> file,
                              requirements |-> reqs, body |-> body] },
       !.issued   = Append(@, [stage |-> stage, file |-> file, epoch |-> resets])]

NoBody == [rfp |-> Null, bids |-> <<>>]

validateFile(f) ==
    IF f.type # PDF THEN Some("Please upload a PDF file")
    ELSE IF f.size > maxSize THEN Some("File size must be less than 10MB")
    ELSE Null

\* the Reset that forgets localStorage.removeItem
handleStartNewProject_KeepsStore(s) ==
    [s EXCEPT !.rfpFile = Null, !.rfpData = Null, !.bidFile = Null,
              !.bids = <<>>, !.analysisData = Null, !.error = Null]

handleStartNewProject(s) ==
    [s EXCEPT !.rfpFile = Null, !.rfpData = Null, !.bidFile = Null,
              !.bids = <<>>, !.analysisData = Null, !.error = Null,
              !.localStorage = Null]

handleRfpFileSelect(s, f) ==
    IF validateFile(f) # Null
    THEN [s EXCEPT !.error = validateFile(f), !.rfpFile = Null]
    ELSE [s EXCEPT !.error = Null, !.rfpFile = Some(f)]

handleBidFileSelect(s, f) ==
    IF validateFile(f) # Null
    THEN [s EXCEPT !.error = validateFile(f), !.bidFile = Null]
    ELSE [s EXCEPT !.error = Null, !.bidFile = Some(f)]

\* handleRfpUpload up to its await
handleRfpUpload(s) ==
    IF s.rfpFile = Null THEN s
    ELSE Fetch([s EXCEPT !.isRfpUploading = TRUE, !.error = Null],
               "rfp", s.rfpFile[1].id, <<>>, NoBody)

\* handleRfpUpload after a successful response
handleRfpUploadOk(s, output) ==
    [s EXCEPT !.rfpData = Some(output), !.rfpFile = Null,
              !.isRfpUploading = FALSE]

\* handleRfpUpload after a failed response: catch, then finally
handleRfpUploadCatch(s, msg) ==
    [s EXCEPT !.error = Some(msg), !.isRfpUploading = FALSE]

\* the upload that sends the requirements in reverse order
handleBidUpload_ReversedRequirements(s) ==
    IF s.bidFile = Null \/ s.rfpData = Null THEN s
    ELSE Fetch([s EXCEPT !.isBidUploading = TRUE, !.error = Null],
               "bid", s.bidFile[1].id,
               [i \in 1..Len(s.rfpData[1].requirements) |->
                   s.rfpData[1].requirements[Len(s.rfpData[1].requirements) + 1 - i]],
               NoBody)

\* handleBidUpload up to its await
handleBidUpload(s) ==
    IF s.bidFile = Null \/ s.rfpData = Null THEN s
    ELSE Fetch([s EXCEPT !.isBidUploading = TRUE, !.error = Null],
               "bid", s.bidFile[1].id, s.rfpData[1].requirements, NoBody)

\* the success path that also drops the Analysis, now stale
handleBidUploadOk_ClearsAnalysis(s, output) ==
    [s EXCEPT !.bids = Append(@, output), !.bidFile = Null,
              !.analysisData = Null, !.isBidUploading = FALSE]

\* the success path that puts the new bid first
handleBidUploadOk_Prepends(s, output) ==
    [s EXCEPT !.bids = <<output>> \o @, !.bidFile = Null,
              !.isBidUploading = FALSE]

handleBidUploadOk(s, output) ==
    [s EXCEPT !.bids = Append(@, output), !.bidFile = Null,
              !.isBidUploading = FALSE]

\* the failure path without the finally block: the flag stays set
handleBidUploadCatch_StaysBusy(s, msg) ==
    [s EXCEPT !.error = Some(msg)]

handleBidUploadCatch(s, msg) ==
    [s EXCEPT !.error = Some(msg), !.isBidUploading = FALSE]

\* the request built from a stale list of bids: the latest bid is missing
handleAnalyzeAll_StaleBids(s) ==
    IF s.rfpData = Null \/ Len(s.bids) = 0
    THEN [s EXCEPT !.error =
            Some("Please upload an RFP and at least one bid before analyzing")]
    ELSE Fetch([s EXCEPT !.isAnalyzing = TRUE, !.error = Null],
               "analyze", 0, <<>>,
               [rfp |-> s.rfpData, bids |-> SubSeq(s.bids, 1, Len(s.bids) - 1)])

\* handleAnalyzeAll up to its await
handleAnalyzeAll(s) ==
    IF s.rfpData = Null \/ Len(s.bids) = 0
    THEN [s EXCEPT !.error =
            Some("Please upload an RFP and at least one bid before analyzing")]
    ELSE Fetch([s EXCEPT !.isAnalyzing = TRUE, !.error = Null],
               "analyze", 0, <<>>, [rfp |-> s.rfpData, bids |-> s.bids])

\* the success path that merges the new result into the Analysis on display
handleAnalyzeAllOk_Merges(s, output) ==
    [s EXCEPT !.analysisData =
                 IF @ = Null THEN Some(output)
                 ELSE Some([output EXCEPT
                              !.openQuestions = s.analysisData[1].openQuestions \o @]),
              !.isAnalyzing = FALSE]

handleAnalyzeAllOk(s, output) ==
    [s EXCEPT !.analysisData = Some(output), !.isAnalyzing = FALSE]

\* the catch block that also drops the Analysis on display
handleAnalyzeAllCatch_ClearsAnalysis(s, msg) ==
    [s EXCEPT !.error = Some(msg), !.analysisData = Null, !.isAnalyzing = FALSE]

handleAnalyzeAllCatch(s, msg) ==
    [s EXCEPT !.error = Some(msg), !.isAnalyzing = FALSE]

\* ----------------------------------------------------------------- effects
\* An effect runs after a render in which one of its dependencies changed;
\* prev is the state of the previous render, s the state just rendered, acc
\* the state with the updates the effects of this render have queued so far.

\* the load effect whose catch block removes the item it could not parse
loadEffect_RemovesCorrupt(s) ==
    IF s.localStorage = Null THEN s
    ELSE LET r == JSONparse(s.localStorage[1]) IN
         IF ~r.ok THEN [s EXCEPT !.localStorage = Null]
         ELSE [s EXCEPT
                 !.rfpData = IF r.data.rfpData # Null THEN r.data.rfpData ELSE @,
                 !.bids    = r.data.bids,
                 !.analysisData =
                     IF r.data.analysisData # Null THEN r.data.analysisData ELSE @]

\* the load effect of before the Analysis was persisted
loadEffect_WithoutAnalysis(s) ==
    IF s.localStorage = Null THEN s
    ELSE LET r == JSONparse(s.localStorage[1]) IN
         IF ~r.ok THEN s
         ELSE [s EXCEPT
                 !.rfpData = IF r.data.rfpData # Null THEN r.data.rfpData ELSE @,
                 !.bids    = r.data.bids]

\* useEffect(..., [])
loadEffect(s) ==
    IF s.localStorage = Null THEN s
    ELSE LET r == JSONparse(s.localStorage[1]) IN
         IF ~r.ok THEN s
         ELSE [s EXCEPT
                 !.rfpData = IF r.data.rfpData # Null THEN r.data.rfpData ELSE @,
                 !.bids    = r.data.bids,   \* an array, even empty, is truthy
                 !.analysisData =
                     IF r.data.analysisData # Null THEN r.data.analysisData ELSE @]

\* the save effect whose dependency list lacks analysisData
saveEffect_WithoutAnalysisDep(prev, s, acc) ==
    IF /\ <<prev.rfpData, prev.bids>> # <<s.rfpData, s.bids>>
       /\ (s.rfpData # Null \/ Len(s.bids) > 0 \/ s.analysisData # Null)
    THEN [acc EXCEPT !.localStorage =
            Some(JSONstringify([rfpData |-> s.rfpData, bids |-> s.bids,
                                analysisData |-> s.analysisData]))]
    ELSE acc

\* useEffect(..., [rfpData, bids, analysisData])
saveEffect(prev, s, acc) ==
    IF /\ <<prev.rfpData, prev.bids, prev.analysisData>>
            # <<s.rfpData, s.bids, s.analysisData>>
       /\ (s.rfpData # Null \/ Len(s.bids) > 0 \/ s.analysisData # Null)
    THEN [acc EXCEPT !.localStorage =
            Some(JSONstringify([rfpData |-> s.rfpData, bids |-> s.bids,
                                analysisData |-> s.analysisData]))]
    ELSE acc

\* useEffect(..., [rfpFile, isRfpUploading, handleRfpUpload])
rfpAutoTrigger(prev, s, acc) ==
    IF /\ <<prev.rfpFile, prev.isRfpUploading>> # <<s.rfpFile, s.isRfpUploading>>
       /\ s.rfpFile # Null /\ ~s.isRfpUploading
    THEN handleRfpUpload([acc EXCEPT !.rfpFile = s.rfpFile])
    ELSE acc

\* the effect that does not look at the busy flag
bidAutoTrigger_IgnoresBusy(prev, s, acc) ==
    IF /\ <<prev.bidFile, prev.rfpData, prev.isBidUploading>>
            # <<s.bidFile, s.rfpData, s.isBidUploading>>
       /\ s.bidFile # Null /\ s.rfpData # Null
    THEN handleBidUpload([acc EXCEPT !.bidFile = s.bidFile, !.rfpData = s.rfpData])
    ELSE acc

\* useEffect(..., [bidFile, rfpData, isBidUploading, handleBidUpload])
bidAutoTrigger(prev, s, acc) ==
    IF /\ <<prev.bidFile, prev.rfpData, prev.isBidUploading>>
            # <<s.bidFile, s.rfpData, s.isBidUploading>>
       /\ s.bidFile # Null /\ s.rfpData # Null /\ ~s.isBidUploading
    THEN handleBidUpload([acc EXCEPT !.bidFile = s.bidFile, !.rfpData = s.rfpData])
    ELSE acc

Effects(prev, s) ==
    bidAutoTrigger(prev, s, rfpAutoTrigger(prev, s, saveEffect(prev, s, s)))

\* Render until no effect queues an update any more.
RECURSIVE Render(_, _)
Render(prev, s) ==
    LET t == Effects(prev, s) IN
    IF t = s THEN s ELSE Render(s, t)

\* The handler's updates are rendered, the effects run, the result is the
\* next state.
Commit(s, name) ==
    LET t == Render(S, s) IN
    /\ Len(t.issued) <= MaxRequests
    /\ rfpFile' = t.rfpFile
    /\ isRfpUploading' = t.isRfpUploading
    /\ rfpData' = t.rfpData
    /\ bidFile' = t.bidFile
    /\ isBidUploading' = t.isBidUploading
    /\ bids' = t.bids
    /\ analysisData' = t.analysisData
    /\ isAnalyzing' = t.isAnalyzing
    /\ error' = t.error
    /\ localStorage' = t.localStorage
    /\ requests' = t.requests
    /\ issued' = t.issued
    /\ last' = name
    /\ UNCHANGED <<routeVars, viewVars>>

\* ----------------------------------------------------------------- actions
NewFile(type, size) == [id |-> fileCount + 1, type |-> type, size |-> size]

SelectFile(f) ==
    IF validateFile(f) = Null
    THEN fileCount < MaxFiles /\ fileCount' = fileCount + 1
    ELSE fileCount' = fileCount

\* first render: the load effect, then the render of what it loaded
Mount ==
    /\ ~mounted
    /\ mounted' = TRUE
    /\ Commit(loadEffect(S), "mount")
    /\ UNCHANGED <<fileCount, resets>>

\* "Start New Project" is rendered when rfpData || bids.length > 0
StartNewProject ==
    /\ mounted
    /\ rfpData # Null \/ Len(bids) > 0
    /\ resets < MaxResets
    /\ resets' = resets + 1
    /\ Commit(handleStartNewProject(S), "reset")
    /\ UNCHANGED <<mounted, fileCount>>

\* the RFP drop zone is rendered when !rfpData
RfpDrop ==
    /\ mounted
    /\ rfpData = Null
    /\ \E type \in FileTypes, size \in FileSizes :
         /\ SelectFile(NewFile(type, size))
         /\ Commit(handleRfpFileSelect(S, NewFile(type, size)), "rfpDrop")
    /\ UNCHANGED <<mounted, resets>>

\* its file input is disabled while isRfpUploading
RfpFileInputChange ==
    /\ mounted
    /\ rfpData = Null /\ ~isRfpUploading
    /\ \E type \in FileTypes, size \in FileSizes :
         /\ SelectFile(NewFile(type, size))
         /\ Commit(handleRfpFileSelect(S, NewFile(type, size)), "rfpInput")
    /\ UNCHANGED <<mounted, resets>>

\* the bid drop zone is always rendered
BidDrop ==
    /\ mounted
    /\ \E type \in FileTypes, size \in FileSizes :
         /\ SelectFile(NewFile(type, size))
         /\ Commit(handleBidFileSelect(S, NewFile(type, size)), "bidDrop")
    /\ UNCHANGED <<mounted, resets>>

\* its file input is disabled while isBidUploading || !rfpData
BidFileInputChange ==
    /\ mounted
    /\ ~isBidUploading /\ rfpData # Null
    /\ \E type \in FileTypes, size \in FileSizes :
         /\ SelectFile(NewFile(type, size))
         /\ Commit(handleBidFileSelect(S, NewFile(type, size)), "bidInput")
    /\ UNCHANGED <<mounted, resets>>

\* "Analyze All Bids" is rendered when rfpData && bids.length > 0 and is
\* disabled while isAnalyzing
AnalyzeAllClick ==
    /\ mounted
    /\ rfpData # Null /\ Len(bids) > 0 /\ ~isAnalyzing
    /\ Commit(handleAnalyzeAll(S), "analyzeClick")
    /\ UNCHANGED <<mounted, fileCount, resets>>

Done(s, r) == [s EXCEPT !.requests = @ \ {r}]

\* error messages a failed request ends with: the server's, the fallback of
\* the handler, or the one of a thrown fetch
FailureMessages(fallback) == { "server error", fallback, "Failed to fetch" }

RfpSuccess ==
    \E r \in requests, reqs \in RfpRequirementLists :
        /\ r.stage = "rfp"
        /\ Commit(handleRfpUploadOk(Done(S, r),
                      [req |-> r.id, requirements |-> reqs]), "rfpSuccess")
        /\ UNCHANGED <<mounted, fileCount, resets>>

RfpFailure ==
    \E r \in requests, msg \in FailureMessages("Failed to extract RFP data") :
        /\ r.stage = "rfp"
        /\ Commit(handleRfpUploadCatch(Done(S, r), msg), "rfpFailure")
        /\ UNCHANGED <<mounted, fileCount, resets>>

\* the assessment model returns one verdict per requirement it was given
BidSuccess ==
    \E r \in requests, sat \in BOOLEAN :
        /\ r.stage = "bid"
        /\ Commit(handleBidUploadOk(Done(S, r),
                      [req |-> r.id,
                       requirements |-> [i \in 1..Len(r.requirements) |-> sat]]),
                  "bidSuccess")
        /\ UNCHANGED <<mounted, fileCount, resets>>

BidFailure ==
    \E r \in requests, msg \in FailureMessages("Failed to process bid") :
        /\ r.stage = "bid"
        /\ Commit(handleBidUploadCatch(Done(S, r), msg), "bidFailure")
        /\ UNCHANGED <<mounted, fileCount, resets>>

\* the object the analysis model returns for request r, shaped by
\* analysisSchema: a recommended bid, a reason, and open questions for each bid
\* of the request (req, the request that produced it, is not part of the data)
AnalysisOutput(r) ==
    [req |-> r.id, recommendation |-> Len(r.body.bids),
     recommendationReason |-> "reason",
     openQuestions |-> [i \in 1..Len(r.body.bids) |-> r.id]]

AnalyzeSuccess ==
    \E r \in requests :
        /\ r.stage = "analyze"
        /\ Commit(handleAnalyzeAllOk(Done(S, r), AnalysisOutput(r)), "analyzeSuccess")
        /\ UNCHANGED <<mounted, fileCount, resets>>

AnalyzeFailure ==
    \E r \in requests, msg \in FailureMessages("Failed to analyze bids") :
        /\ r.stage = "analyze"
        /\ Commit(handleAnalyzeAllCatch(Done(S, r), msg), "analyzeFailure")
        /\ UNCHANGED <<mounted, fileCount, resets>>

\* ------------------------------------------------------------------ routes
\* A JSON value as the route sees it: kind is the JavaScript type, items the
\* elements of an array.
JV(kind, items) == [kind |-> kind, items |-> items]
Undefined == JV("undefined", <<>>)
JNull     == JV("null", <<>>)
JObject   == JV("object", <<>>)
JArray(items) == JV("array", items)

\* !v
Falsy(v) == v.kind \in {"undefined", "null"}

\* an element of a parsed requirements array: req.text and req.category are
\* undefined when the element is not an object with these fields
ReqItem(r) == [kind |-> "object", text |-> r.text, category |-> r.category]
NumItem    == [kind |-> "number", text |-> "undefined", category |-> "undefined"]

\* the texts a caller sends in the "requirements" form field
RequirementsTexts ==
    { "", "not json", "null", "{}", "[]", "[1]",
      "[{\"text\":\"t1\",\"category\":\"c1\"}]",
      "[{\"text\":\"t2\",\"category\":\"c2\"},{\"text\":\"t1\",\"category\":\"c1\"}]",
      "[{\"text\":\"t3\\nt4\",\"category\":\"c3\"}]" }

\* JSON.parse on these texts: ok = FALSE when it throws
JSONparseText(txt) ==
    CASE txt = "null" -> [ok |-> TRUE, value |-> JNull]
      [] txt = "{}"   -> [ok |-> TRUE, value |-> JObject]
      [] txt = "[]"   -> [ok |-> TRUE, value |-> JArray(<<>>)]
      [] txt = "[1]"  -> [ok |-> TRUE, value |-> JArray(<<NumItem>>)]
      [] txt = "[{\"text\":\"t1\",\"category\":\"c1\"}]"
                      -> [ok |-> TRUE, value |-> JArray(<<ReqItem(Req1)>>)]
      [] txt = "[{\"text\":\"t2\",\"category\":\"c2\"},{\"text\":\"t1\",\"category\":\"c1\"}]"
                      -> [ok |-> TRUE,
                          value |-> JArray(<<ReqItem(Req2), ReqItem(Req1)>>)]
      [] txt = "[{\"text\":\"t3\\nt4\",\"category\":\"c3\"}]"
                      -> [ok |-> TRUE, value |-> JArray(<<ReqItem(Req3)>>)]
      [] OTHER        -> [ok |-> FALSE, value |-> Undefined]

\* the text is JSON of a sequence of Requirement
IsRequirementSequence(txt) ==
    /\ JSONparseText(txt).ok
    /\ JSONparseText(txt).value.kind = "array"
    /\ \A i \in 1..Len(JSONparseText(txt).value.items) :
          JSONparseText(txt).value.items[i].kind = "object"

BlobUrls == { "https://blob/1", "https://blob/2" }

RouteFiles == { Null } \cup
              { Some([type |-> t, size |-> n]) :
                    t \in FileTypes, n \in {1, maxSize, maxSize + 1} }

RequirementsFields == { Null } \cup { Some(t) : t \in RequirementsTexts }

\* an RFP record: an object whose requirements property is the list reqs
\* (the items of an object hold its requirements property, when it has one)
RfpRecord(reqs) == JV("object", <<reqs>>)

\* the bids of an analyze-all request: each is the isSatisfied verdict of its
\* requirements, in order
RouteBids ==
    { [requirements |-> v] :
          v \in UNION { [1..n -> BOOLEAN] : n \in 0..MaxBidRequirements } }

\* rfp and bids of the body of an analyze-all request
RfpFields  == { Undefined, JNull, JObject, RfpRecord(<<Req1>>),
                RfpRecord(<<Req2, Req1>>), RfpRecord(<<Req3>>) }
BidsFields ==
    { Undefined, JNull, JObject, JArray(<<>>) }
    \cup { JArray(<<b>>) : b \in RouteBids }
    \cup { JArray(<<b1, b2>>) : b1 \in RouteBids, b2 \in RouteBids }

NoPrompt == [model |-> "", bidsSummary |-> <<>>, requirementsText |-> <<>>]

\* A string in a template literal is the sequence of its characters.
Chars(s) ==
    CASE s = "t1" -> <<"t", "1">>
      [] s = "t2" -> <<"t", "2">>
      [] s = "c1" -> <<"c", "1">>
      [] s = "c2" -> <<"c", "2">>
      [] s = "c3" -> <<"c", "3">>
      [] s = "t3\nt4" -> <<"t", "3", "\n", "t", "4">>
      [] s = "undefined" -> <<"u", "n", "d", "e", "f", "i", "n", "e", "d">>

\* ${n} for a non-negative integer n: its decimal digits
RECURSIVE NumberToString(_)
NumberToString(n) ==
    LET digit == <<"0", "1", "2", "3", "4", "5", "6", "7", "8", "9">>[(n % 10) + 1]
    IN  IF n < 10 THEN <<digit>> ELSE NumberToString(n \div 10) \o <<digit>>

\* Array.prototype.join
RECURSIVE join(_, _)
join(parts, sep) ==
    IF parts = <<>> THEN <<>>
    ELSE IF Len(parts) = 1 THEN parts[1]
    ELSE parts[1] \o sep \o join(Tail(parts), sep)

\* the block whose numbering starts at the array index, 0
requirementsText_ZeroBased(requirements) ==
    join([k \in 1..Len(requirements) |->
              LET index == k - 1 IN
              NumberToString(index) \o <<".", " ", "[">>
                  \o Chars(requirements[k].category) \o <<"]", " ">>
                  \o Chars(requirements[k].text)],
         <<"\n">>)

\* requirements.map((req, index) => `${index + 1}. [${req.category}] ${req.text}`)
\*             .join("\n")        (index is the array index, from 0)
requirementsText(requirements) ==
    join([k \in 1..Len(requirements) |->
              LET index == k - 1 IN
              NumberToString(index + 1) \o <<".", " ", "[">>
                  \o Chars(requirements[k].category) \o <<"]", " ">>
                  \o Chars(requirements[k].text)],
         <<"\n">>)

\* the same block, built by analyze-all from rfp.requirements
rfpRequirementsText(requirements) ==
    join([k \in 1..Len(requirements) |->
              LET index == k - 1 IN
              NumberToString(index + 1) \o <<".", " ", "[">>
                  \o Chars(requirements[k].category) \o <<"]", " ">>
                  \o Chars(requirements[k].text)],
         <<"\n">>)

\* a JavaScript number: NaN, or the integer n
NaN    == [nan |-> TRUE, n |-> 0]
Num(n) == [nan |-> FALSE, n |-> n]

\* Math.round((satisfied / total) * 100): 0 / 0 is NaN and Math.round keeps
\* it; otherwise the nearest integer, halves rounded up
RoundedPercent(satisfied, total) ==
    IF total = 0 THEN NaN
    ELSE Num((200 * satisfied + total) \div (2 * total))

\* bid.requirements.filter((r) => r.isSatisfied).length
SatisfiedCount(bid) ==
    Cardinality({ i \in 1..Len(bid.requirements) : bid.requirements[i] })

\* the figures bidsSummary prints for each bid, in the order of bids
bidsSummary(bidList) ==
    [i \in 1..Len(bidList) |->
        [index     |-> i,
         satisfied |-> SatisfiedCount(bidList[i]),
         total     |-> Len(bidList[i].requirements),
         percent   |-> RoundedPercent(SatisfiedCount(bidList[i]),
                                      Len(bidList[i].requirements))]]

NoForm == [file |-> Null, requirementsJson |-> Null, rfp |-> Undefined,
           bids |-> Undefined]

Forms(r) ==
    CASE r = "process-rfp" ->
           { [NoForm EXCEPT !.file = f] : f \in RouteFiles }
      [] r = "process-bid" ->
           { [NoForm EXCEPT !.file = f, !.requirementsJson = q] :
                 f \in RouteFiles, q \in RequirementsFields }
      [] r = "analyze-all" ->
           { [NoForm EXCEPT !.rfp = x, !.bids = b] :
                 x \in RfpFields, b \in BidsFields }

Event(op, url, ok) == [op |-> op, url |-> url, ok |-> ok]

Json(status, err) == Some([status |-> status, error |-> err, output |-> FALSE])
JsonOutput        == Some([status |-> 200, error |-> "", output |-> TRUE])

\* if (blobUrl)
Truthy(url) == url # Null /\ url[1] # ""

\* the size check that also rejects a file of exactly maxSize bytes
validateRfpRequest_SizeInclusive(f) ==
    IF f.file = Null THEN Json(400, "No file provided")
    ELSE IF f.file[1].type # PDF THEN Json(400, "File must be a PDF")
    ELSE IF f.file[1].size >= maxSize
         THEN Json(400, "File size must be less than 10MB")
    ELSE Null

\* the checks of process-rfp before staging: Null when the request passes
validateRfpRequest(f) ==
    IF f.file = Null THEN Json(400, "No file provided")
    ELSE IF f.file[1].type # PDF THEN Json(400, "File must be a PDF")
    ELSE IF f.file[1].size > maxSize
         THEN Json(400, "File size must be less than 10MB")
    ELSE Null

\* the checks of process-bid before staging
validateBidRequest(f) ==
    IF f.file = Null THEN Json(400, "No file provided")
    ELSE IF f.requirementsJson = Null \/ f.requirementsJson = Some("")
         THEN Json(400, "No requirements provided")
    ELSE IF ~JSONparseText(f.requirementsJson[1]).ok
         THEN Json(400, "Invalid requirements JSON")
    ELSE IF f.file[1].type # PDF THEN Json(400, "File must be a PDF")
    ELSE IF f.file[1].size > maxSize
         THEN Json(400, "File size must be less than 10MB")
    ELSE Null

\* the check that lets an empty bids array through
validateAnalyzeRequest_NoLengthCheck(f) ==
    IF Falsy(f.rfp) THEN Json(400, "RFP data is required")
    ELSE IF Falsy(f.bids) \/ f.bids.kind # "array"
         THEN Json(400, "At least one bid is required")
    ELSE Null

\* the checks of analyze-all
validateAnalyzeRequest(f) ==
    IF Falsy(f.rfp) THEN Json(400, "RFP data is required")
    ELSE IF Falsy(f.bids) \/ f.bids.kind # "array" \/ Len(f.bids.items) = 0
         THEN Json(400, "At least one bid is required")
    ELSE Null

RouteStepPrompt(pc, url, evs, resp, p) ==
    /\ routePc' = pc
    /\ blobUrl' = url
    /\ events' = evs
    /\ response' = resp
    /\ prompt' = p
    /\ UNCHANGED <<route, form, uiVars, viewVars>>

RouteStep(pc, url, evs, resp) == RouteStepPrompt(pc, url, evs, resp, prompt)

\* put(): it returns a blob with a URL, or it throws
Put ==
    \/ \E u \in BlobUrls \cup {""} :
          RouteStep(IF Truthy(Some(u)) THEN "generate" ELSE "finally",
                    Some(u), Append(events, Event("put", u, TRUE)),
                    IF Truthy(Some(u)) THEN response
                    ELSE Json(500, "Failed to upload file to blob storage"))
    \/ RouteStep("finally", blobUrl, Append(events, Event("put", "", FALSE)),
                 Json(500, "put failed"))

\* generateText() returns or throws; the return statement or the catch block
\* builds the response
GenerateTextEnd(pc) ==
    \/ RouteStep(pc, blobUrl, Append(events, Event("modelEnd", "", TRUE)), JsonOutput)
    \/ RouteStep(pc, blobUrl, Append(events, Event("modelEnd", "", FALSE)),
                 Json(500, "model failed"))

\* the cleanup written at the end of the try block: it runs on success only
Finally_OnSuccessOnly ==
    IF Truthy(blobUrl) /\ response[1].status = 200
    THEN \E ok \in BOOLEAN :
            RouteStep("done", blobUrl, Append(events, Event("del", blobUrl[1], ok)),
                      response)
    ELSE RouteStep("done", blobUrl, events, response)

\* the cleanup whose failure is not caught: the route answers 500
Finally_Escalates ==
    IF Truthy(blobUrl)
    THEN \E ok \in BOOLEAN :
            RouteStep("done", blobUrl, Append(events, Event("del", blobUrl[1], ok)),
                      IF ok THEN response ELSE Json(500, "del failed"))
    ELSE RouteStep("done", blobUrl, events, response)

\* finally { if (blobUrl) { try { await del(blobUrl) } catch {} } }
Finally ==
    IF Truthy(blobUrl)
    THEN \E ok \in BOOLEAN :
            RouteStep("done", blobUrl, Append(events, Event("del", blobUrl[1], ok)),
                      response)
    ELSE RouteStep("done", blobUrl, events, response)

\* --- process-rfp
RfpValidate ==
    /\ route = "process-rfp" /\ routePc = "start"
    /\ IF validateRfpRequest(form) # Null
       THEN RouteStep("finally", blobUrl, events, validateRfpRequest(form))
       ELSE RouteStep("put", blobUrl, events, response)

RfpPut ==
    /\ route = "process-rfp" /\ routePc = "put"
    /\ Put

\* the cleanup issued as soon as the model call has been started
RfpGenerateText_DeletesEarly ==
    /\ route = "process-rfp" /\ routePc = "generate"
    /\ RouteStepPrompt("model", blobUrl,
                       events \o <<Event("modelStart", "", TRUE),
                                   Event("del", blobUrl[1], TRUE)>>,
                       response,
                       [prompt EXCEPT !.model = "anthropic/claude-sonnet-4.5"])

RfpGenerateText ==
    /\ route = "process-rfp" /\ routePc = "generate"
    /\ RouteStepPrompt("model", blobUrl,
                       Append(events, Event("modelStart", "", TRUE)), response,
                       [prompt EXCEPT !.model = "anthropic/claude-sonnet-4.5"])

RfpGenerateTextEnd ==
    /\ route = "process-rfp" /\ routePc = "model"
    /\ GenerateTextEnd("finally")

RfpFinally ==
    /\ route = "process-rfp" /\ routePc = "finally"
    /\ Finally

\* --- process-bid
BidValidate ==
    /\ route = "process-bid" /\ routePc = "start"
    /\ IF validateBidRequest(form) # Null
       THEN RouteStep("finally", blobUrl, events, validateBidRequest(form))
       ELSE RouteStep("put", blobUrl, events, response)

BidPut ==
    /\ route = "process-bid" /\ routePc = "put"
    /\ Put

\* requirements.map(...) throws a TypeError unless requirements is an array
BidGenerateText ==
    /\ route = "process-bid" /\ routePc = "generate"
    /\ IF JSONparseText(form.requirementsJson[1]).value.kind # "array"
       THEN RouteStep("finally", blobUrl, events,
                      Json(500, "requirements.map is not a function"))
       ELSE RouteStepPrompt("model", blobUrl,
                Append(events, Event("modelStart", "", TRUE)), response,
                [prompt EXCEPT
                    !.model = "anthropic/claude-haiku-4.5",
                    !.requirementsText =
                        requirementsText(
                            JSONparseText(form.requirementsJson[1]).value.items)])

BidGenerateTextEnd ==
    /\ route = "process-bid" /\ routePc = "model"
    /\ GenerateTextEnd("finally")

BidFinally ==
    /\ route = "process-bid" /\ routePc = "finally"
    /\ Finally

\* --- analyze-all
AnalyzeValidate ==
    /\ route = "analyze-all" /\ routePc = "start"
    /\ IF validateAnalyzeRequest(form) # Null
       THEN RouteStep("done", blobUrl, events, validateAnalyzeRequest(form))
       ELSE RouteStep("generate", blobUrl, events, response)

\* rfp.requirements.map(...) throws a TypeError when rfp has no requirements
AnalyzeGenerateText ==
    /\ route = "analyze-all" /\ routePc = "generate"
    /\ IF form.rfp.items = <<>>
       THEN RouteStep("done", blobUrl, events,
                      Json(500, "Cannot read properties of undefined"))
       ELSE RouteStepPrompt("model", blobUrl,
                            Append(events, Event("modelStart", "", TRUE)), response,
                            [model |-> "anthropic/claude-sonnet-4.5",
                             bidsSummary |-> bidsSummary(form.bids.items),
                             requirementsText |->
                                 rfpRequirementsText(form.rfp.items[1])])

AnalyzeGenerateTextEnd ==
    /\ route = "analyze-all" /\ routePc = "model"
    /\ GenerateTextEnd("done")

RouteIdle ==
    /\ route = "none"
    /\ form = NoForm
    /\ routePc = "idle"
    /\ blobUrl = Null
    /\ events = <<>>
    /\ response = Null
    /\ prompt = NoPrompt

UiIdle ==
    /\ rfpFile = Null /\ isRfpUploading = FALSE /\ rfpData = Null
    /\ bidFile = Null /\ isBidUploading = FALSE /\ bids = <<>>
    /\ analysisData = Null /\ isAnalyzing = FALSE /\ error = Null
    /\ mounted = FALSE
    /\ requests = {}
    /\ issued = <<>>
    /\ fileCount = 0
    /\ resets = 0
    /\ last = "none"

\* ---------------------------------------------------------------- bid card
\* the assessed requirements a bid may hold
AssessedRequirements ==
    [text : {"t1", "t2"}, category : {"c1", "c2"}, isSatisfied : BOOLEAN,
     reason : {"r1", "r2"}]

Cards == UNION { [1..n -> AssessedRequirements] : n \in 0..MaxBidRequirements }

\* requirements.reduce(...): the entries of the object it builds, in the order
\* the categories were first met
RECURSIVE groupRequirementsByCategory(_)
groupRequirementsByCategory(requirements) ==
    IF requirements = <<>> THEN <<>>
    ELSE LET acc == groupRequirementsByCategory(
                        SubSeq(requirements, 1, Len(requirements) - 1))
             req == requirements[Len(requirements)]
         IN  IF \E k \in 1..Len(acc) : acc[k].category = req.category
             THEN [k \in 1..Len(acc) |->
                      IF acc[k].category = req.category
                      THEN [acc[k] EXCEPT !.texts = Append(@, req.text)]
                      ELSE acc[k]]
             ELSE Append(acc, [category |-> req.category, texts |-> <<req.text>>])

\* bid.requirements.find((r) => r.text === text): the first match
find(requirements, text) ==
    LET hits == { i \in 1..Len(requirements) : requirements[i].text = text } IN
    IF hits = {} THEN Null
    ELSE Some(requirements[CHOOSE i \in hits : \A j \in hits : i <= j])

\* the <li> elements of the expanded card, category by category: the text of
\* the group entry with the verdict and reason of the requirement found
ExpandedCard(requirements) ==
    LET entries == groupRequirementsByCategory(
                       [i \in 1..Len(requirements) |->
                           [text |-> requirements[i].text,
                            category |-> requirements[i].category]])
    IN  [g \in 1..Len(entries) |->
            [category |-> entries[g].category,
             items |->
                SelectSeq(
                    [t \in 1..Len(entries[g].texts) |->
                        LET requirement == find(requirements, entries[g].texts[t])
                        IN  IF requirement = Null THEN Null
                            ELSE Some([text |-> entries[g].texts[t],
                                       isSatisfied |-> requirement[1].isSatisfied,
                                       reason |-> requirement[1].reason])],
                    LAMBDA li : li # Null)]]

\* onClick={() => setExpandedBidIndex(isExpanded ? null : index)}, and the
\* render that follows
ToggleBid ==
    LET isExpanded == expandedBidIndex = Some(0) IN
    /\ expandedBidIndex' = IF isExpanded THEN Null ELSE Some(0)
    /\ expandedView' = IF isExpanded THEN <<>> ELSE ExpandedCard(card)
    /\ UNCHANGED <<card, uiVars, routeVars>>

ViewIdle ==
    /\ card = <<>>
    /\ expandedBidIndex = Null
    /\ expandedView = <<>>

\* ----------------------------------------------------------- specification
Init ==
    /\ UiIdle
    /\ localStorage \in InitialStores
    /\ RouteIdle
    /\ ViewIdle

Next ==
    \/ Mount
    \/ StartNewProject
    \/ RfpDrop
    \/ RfpFileInputChange
    \/ BidDrop
    \/ BidFileInputChange
    \/ AnalyzeAllClick
    \/ RfpSuccess
    \/ RfpFailure
    \/ BidSuccess
    \/ BidFailure
    \/ AnalyzeSuccess
    \/ AnalyzeFailure

Spec == Init /\ [][Next]_vars

\* one request to one route, its inputs drawn from the bounded sets above
InitRoute ==
    /\ UiIdle
    /\ localStorage = Null
    /\ route \in {"process-rfp", "process-bid", "analyze-all"}
    /\ form \in Forms(route)
    /\ routePc = "start"
    /\ blobUrl = Null
    /\ events = <<>>
    /\ response = Null
    /\ prompt = NoPrompt
    /\ ViewIdle

NextRoute ==
    \/ RfpValidate
    \/ RfpPut
    \/ RfpGenerateText
    \/ RfpGenerateTextEnd
    \/ RfpFinally
    \/ BidValidate
    \/ BidPut
    \/ BidGenerateText
    \/ BidGenerateTextEnd
    \/ BidFinally
    \/ AnalyzeValidate
    \/ AnalyzeGenerateText
    \/ AnalyzeGenerateTextEnd

SpecRoute == InitRoute /\ [][NextRoute]_vars

\* one bid card, its requirements drawn from the bounded set above
InitView ==
    /\ UiIdle
    /\ localStorage = Null
    /\ RouteIdle
    /\ card \in Cards
    /\ expandedBidIndex = Null
    /\ expandedView = <<>>

NextView == ToggleBid

SpecView == InitView /\ [][NextView]_vars

TypeOK ==
    /\ isRfpUploading \in BOOLEAN /\ isBidUploading \in BOOLEAN
    /\ isAnalyzing \in BOOLEAN /\ mounted \in BOOLEAN
    /\ Len(rfpFile) <= 1 /\ Len(bidFile) <= 1 /\ Len(rfpData) <= 1
    /\ Len(analysisData) <= 1 /\ Len(error) <= 1 /\ Len(localStorage) <= 1
    /\ fileCount \in 0..MaxFiles /\ resets \in 0..MaxResets
    /\ Len(issued) <= MaxRequests

\* ------------------------------------------------------------------ claims
\* the epoch (number of Resets before it) in which the request that produced
\* a value was issued; values loaded at startup belong to epoch 0
Epoch(id) == IF id = 0 THEN 0 ELSE issued[id].epoch

Failures == {"rfpFailure", "bidFailure", "analyzeFailure"}

\* C1: in every reachable state, the bids collection is non-empty only if an
\* RFP is present.
C1_BidsOnlyWithRfp == Len(bids) > 0 => rfpData # Null

\* C2: in every reachable state, an Analysis is present only if the bids
\* collection is non-empty.
C2_AnalysisOnlyWithBids == analysisData # Null => Len(bids) > 0

\* C3: right after a Reset the store holds nothing and the project is Empty,
\* and no RFP, bid or analysis of a request issued before the latest Reset is
\* ever in the project state or in the store.
C3_NothingFromBeforeReset ==
    /\ last = "reset" =>
          rfpData = Null /\ bids = <<>> /\ analysisData = Null
          /\ localStorage = Null
    /\ \A i \in 1..Len(bids) : Epoch(bids[i].req) = resets
    /\ analysisData # Null => Epoch(analysisData[1].req) = resets
    /\ (localStorage # Null /\ JSONparse(localStorage[1]).ok) =>
          LET p == JSONparse(localStorage[1]).data IN
          /\ \A i \in 1..Len(p.bids) : Epoch(p.bids[i].req) = resets
          /\ p.analysisData # Null => Epoch(p.analysisData[1].req) = resets

\* C4: every Reset step leaves the RFP absent, the bids empty, the Analysis
\* absent and the project key removed from the store.
C4_ResetClearsEverything ==
    [][resets' # resets =>
          /\ rfpData' = Null /\ bids' = <<>> /\ analysisData' = Null
          /\ localStorage' = Null]_vars

\* a Reset has just run while a request was in flight
C4_Witness == last = "reset" /\ requests # {} /\ localStorage = Null

\* C9: the step in which a request fails leaves the RFP, the bids, the
\* Analysis and the store as they were.
C9_FailureLeavesProjectUntouched ==
    [][last' \in Failures =>
          UNCHANGED <<rfpData, bids, analysisData, localStorage>>]_vars

\* a request has just failed while bids and an Analysis exist
C9_Witness ==
    /\ last \in Failures
    /\ Len(bids) > 0 /\ analysisData # Null /\ localStorage # Null

\* C10: every selected file causes at most one request to its stage.
C10_AtMostOneRequestPerFile ==
    \A i, j \in 1..Len(issued) :
        (/\ issued[i].stage \in {"rfp", "bid"}
         /\ issued[i].stage = issued[j].stage
         /\ issued[i].file = issued[j].file) => i = j

\* --- routes
EventsOf(op) == SelectSeq(events, LAMBDA e : e.op = op)

\* the URLs del() was called with, in order
DelCalls == [i \in 1..Len(EventsOf("del")) |-> EventsOf("del")[i].url]

FileRoutes == {"process-rfp", "process-bid"}

\* C5: when an Extraction or Assessment call has ended, exactly one delete
\* call was issued for the URL staging returned, whatever the model call did,
\* and none when staging returned no URL.
C5_StagingCleanup ==
    (route \in FileRoutes /\ routePc = "done") =>
        IF \E i \in 1..Len(events) :
              events[i].op = "put" /\ events[i].ok /\ events[i].url # ""
        THEN \E i \in 1..Len(events) :
                /\ events[i].op = "put"
                /\ DelCalls = << events[i].url >>
        ELSE DelCalls = <<>>

\* a call whose model invocation failed has ended and the blob was deleted
C5_Witness ==
    /\ route \in FileRoutes /\ routePc = "done"
    /\ \E i \in 1..Len(events) : events[i].op = "modelEnd" /\ ~events[i].ok
    /\ Len(DelCalls) = 1

BadFile(f) ==
    \/ f.file = Null
    \/ f.file[1].type # "application/pdf"
    \/ f.file[1].size > 10485760

\* C6: a request whose file is absent, is not a PDF or is larger than 10 MiB
\* causes no staging call and no model call and ends with status 400; a file
\* of exactly 10 MiB is not rejected for its size.
C6_FileValidation ==
    route \in FileRoutes =>
        /\ BadFile(form) =>
              /\ EventsOf("put") = <<>> /\ EventsOf("modelStart") = <<>>
              /\ routePc = "done" => response[1].status = 400
        /\ (form.file # Null /\ form.file[1].size = 10485760
              /\ routePc = "done") =>
              response[1].error # "File size must be less than 10MB"

\* an oversized PDF, sent with well-formed requirements, has been rejected
C6_Witness ==
    /\ route = "process-bid" /\ routePc = "done"
    /\ form.file # Null /\ form.file[1].type = PDF
    /\ form.file[1].size = maxSize + 1
    /\ form.requirementsJson = Some("[{\"text\":\"t1\",\"category\":\"c1\"}]")
    /\ response[1].status = 400

\* C7: an Assessment request whose requirements are absent or are not a
\* serialized sequence of Requirement causes no staging call and no model
\* call and ends with status 400, the message (when the file is present)
\* telling absent from malformed.
C7_RequirementsValidation ==
    (/\ route = "process-bid"
     /\ \/ form.requirementsJson = Null
        \/ ~IsRequirementSequence(form.requirementsJson[1])) =>
        /\ EventsOf("put") = <<>> /\ EventsOf("modelStart") = <<>>
        /\ routePc = "done" =>
              /\ response[1].status = 400
              /\ form.file # Null =>
                    response[1].error =
                        IF form.requirementsJson \in {Null, Some("")}
                        THEN "No requirements provided"
                        ELSE "Invalid requirements JSON"

\* C8: an Analyze All request whose rfp is absent, or whose bids is absent,
\* not an array or empty, causes no model call and ends with status 400.
C8_AnalyzeValidation ==
    (/\ route = "analyze-all"
     /\ \/ form.rfp.kind \in {"undefined", "null"}
        \/ form.bids.kind # "array"
        \/ Len(form.bids.items) = 0) =>
        /\ EventsOf("modelStart") = <<>>
        /\ routePc = "done" => response[1].status = 400

\* a request with an RFP and an empty bids array has been rejected
C8_Witness ==
    /\ route = "analyze-all" /\ routePc = "done"
    /\ form.rfp = RfpRecord(<<Req1>>) /\ form.bids = JArray(<<>>)
    /\ response[1].status = 400

\* the requests issued by the step
Issued(stage) == { r \in requests' \ requests : r.stage = stage }

\* C11: an Assessment request is issued only while an RFP is present, and it
\* carries the requirements of that RFP, in the same order.
C11_AssessmentCarriesRfpRequirements ==
    [][\A r \in Issued("bid") :
          /\ rfpData' # Null
          /\ r.requirements = rfpData'[1].requirements]_vars

\* an Assessment request carrying a non-empty requirement list is in flight
C11_Witness ==
    \E r \in requests :
        /\ r.stage = "bid" /\ Len(r.requirements) = 2
        /\ rfpData # Null /\ r.requirements = rfpData[1].requirements

\* C12: an Analysis request is issued only when an RFP is present and bids is
\* non-empty, and it carries the RFP and the bids held at that moment.
C12_AnalysisCarriesProject ==
    [][\A r \in Issued("analyze") :
          /\ rfpData' # Null /\ Len(bids') > 0
          /\ r.body = [rfp |-> rfpData', bids |-> bids']]_vars

\* an Analysis request carrying the RFP and a bid of this session is in flight
C12_Witness ==
    \E r \in requests :
        /\ r.stage = "analyze"
        /\ r.body.rfp = rfpData /\ r.body.bids = bids
        /\ Len(bids) > 0 /\ bids[Len(bids)].req > 0

Outstanding(stage) == { r \in requests : r.stage = stage }

\* C13: at any time at most one Extraction, one Assessment and one Analysis
\* request is outstanding.
C13_OneOutstandingPerStage ==
    \A stage \in {"rfp", "bid", "analyze"} : Cardinality(Outstanding(stage)) <= 1

\* a second bid file was dropped while an Assessment request was outstanding
C13_Witness ==
    /\ last = "bidDrop" /\ isBidUploading
    /\ \E r \in Outstanding("bid") : bidFile # Null /\ bidFile[1].id # r.file

\* C14: the step of a successful Analysis makes the stored Analysis exactly
\* the new result and leaves the RFP and the bids as they were.
C14_AnalysisReplaced ==
    [][last' = "analyzeSuccess" =>
          /\ \E r \in requests \ requests' :
                analysisData' = Some(AnalysisOutput(r))
          /\ UNCHANGED <<rfpData, bids>>]_vars

\* an Analysis has just succeeded in a project that was loaded with one
C14_Witness ==
    /\ last = "analyzeSuccess" /\ resets = 0
    /\ rfpData # Null /\ rfpData[1].req = 0
    /\ analysisData # Null /\ analysisData[1].req > 0

\* C15: the step of a successful Assessment leaves the Analysis as it was.
C15_AssessmentKeepsAnalysis ==
    [][last' = "bidSuccess" => analysisData' = analysisData]_vars

\* an Assessment has just succeeded while an Analysis exists
C15_Witness ==
    /\ last = "bidSuccess" /\ analysisData # Null /\ Len(bids) > 1

IsPrefix(a, b) == Len(a) <= Len(b) /\ SubSeq(b, 1, Len(a)) = a

\* C16: every step other than a Reset leaves the previous bids as a prefix of
\* the new bids, and a successful Assessment appends exactly one bid.
C16_BidsOnlyAppended ==
    [][resets' = resets =>
          /\ IsPrefix(bids, bids')
          /\ last' = "bidSuccess" => Len(bids') = Len(bids) + 1]_vars

\* a second bid has just been appended after the first
C16_Witness ==
    /\ last = "bidSuccess" /\ Len(bids) = 2 /\ bids[2].req > bids[1].req

Project == [rfpData |-> rfpData, bids |-> bids, analysisData |-> analysisData]

Successes == {"rfpSuccess", "bidSuccess", "analyzeSuccess"}

\* C17: after a successful Extraction, Assessment or Analysis (and the save
\* effect of its render) the item under the project key is the serialization
\* of the current {rfpData, bids, analysisData}.
C17_StoreFollowsState ==
    last \in Successes =>
        /\ localStorage # Null
        /\ JSONparse(localStorage[1]).ok
        /\ JSONparse(localStorage[1]).data = Project

\* an Analysis has just succeeded and is in the store
C17_Witness ==
    /\ last = "analyzeSuccess" /\ localStorage # Null
    /\ analysisData # Null /\ analysisData[1].req > 0
    /\ JSONparse(localStorage[1]).data.analysisData = analysisData

\* what a page opened now would show after its load effect
Reloaded ==
    loadEffect([S EXCEPT !.rfpData = Null, !.bids = <<>>, !.analysisData = Null])

\* C18: whenever the project is not empty, the store holds what was saved for
\* it, and a startup load of that item restores an equal RFP, bids and
\* Analysis.
C18_SaveLoadRoundTrip ==
    (mounted /\ (rfpData # Null \/ Len(bids) > 0 \/ analysisData # Null)) =>
        /\ Reloaded.rfpData = rfpData
        /\ Reloaded.bids = bids
        /\ Reloaded.analysisData = analysisData

\* a project whose RFP, bid and Analysis were all produced and saved in this
\* session
C18_Witness ==
    /\ rfpData # Null /\ rfpData[1].req > 0
    /\ Len(bids) > 0 /\ bids[1].req > 0
    /\ analysisData # Null /\ analysisData[1].req > 0
    /\ localStorage # Null

\* C19: the delete call, failed or not, leaves the response of the Extraction
\* or Assessment call as the try or catch block built it; a call whose model
\* invocation succeeded ends with status 200 and its output.
C19_CleanupFailureSwallowed ==
    (route \in FileRoutes /\ routePc = "done") =>
        /\ (\E i \in 1..Len(events) : events[i].op = "modelEnd" /\ events[i].ok)
              => response = Some([status |-> 200, error |-> "", output |-> TRUE])
        /\ (\E i \in 1..Len(events) : events[i].op = "modelEnd" /\ ~events[i].ok)
              => response[1].status = 500 /\ response[1].error = "model failed"

\* the model call succeeded, the delete call failed, the call has ended
C19_Witness ==
    /\ route \in FileRoutes /\ routePc = "done"
    /\ \E i \in 1..Len(events) : events[i].op = "modelEnd" /\ events[i].ok
    /\ \E i \in 1..Len(events) : events[i].op = "del" /\ ~events[i].ok

\* C20: the satisfaction percentage of every bid in the Analysis instruction
\* is an integer between 0 and 100: the nearest integer to
\* 100 * satisfied / total when the bid has requirements, 0 when it has none.
C20_SatisfactionPercentage ==
    route = "analyze-all" =>
        \A i \in 1..Len(prompt.bidsSummary) :
            LET e     == prompt.bidsSummary[i]
                total == Len(form.bids.items[i].requirements)
                sat   == Cardinality({ k \in 1..total :
                                         form.bids.items[i].requirements[k] })
            IN  /\ ~e.percent.nan
                /\ e.percent.n \in 0..100
                /\ total = 0 => e.percent.n = 0
                /\ total > 0 =>
                      /\ 2 * total * e.percent.n <= 200 * sat + total
                      /\ 200 * sat + total < 2 * total * (e.percent.n + 1)

\* the fields of an Analysis record (req, the request that produced it, is
\* history, not data)
FieldsOf(a) == DOMAIN a \ {"req"}

\* C21: the Analysis record a successful Analyze All call returns, which the
\* orchestrator stores and renders, has exactly the fields recommendation,
\* mainRecommendationReason, supportingRecommendationPoints and openQuestions.
C21_AnalysisFields ==
    last = "analyzeSuccess" =>
        /\ FieldsOf(analysisData[1]) =
              {"recommendation", "mainRecommendationReason",
               "supportingRecommendationPoints", "openQuestions"}
        /\ FieldsOf(JSONparse(localStorage[1]).data.analysisData[1]) =
              {"recommendation", "mainRecommendationReason",
               "supportingRecommendationPoints", "openQuestions"}

\* the lines of a text: the pieces between its line breaks (no text, no line)
RECURSIVE Lines(_)
Lines(txt) ==
    LET breaks == { i \in 1..Len(txt) : txt[i] = "\n" } IN
    IF txt = <<>> THEN <<>>
    ELSE IF breaks = {} THEN <<txt>>
    ELSE LET k == CHOOSE i \in breaks : \A j \in breaks : i <= j IN
         IF k = Len(txt) THEN <<SubSeq(txt, 1, k - 1), <<>>>>
         ELSE <<SubSeq(txt, 1, k - 1)>> \o Lines(SubSeq(txt, k + 1, Len(txt)))

\* 'i. [category] text'
NumberedLine(i, req) ==
    NumberToString(i) \o <<".", " ", "[">> \o Chars(req.category)
        \o <<"]", " ">> \o Chars(req.text)

\* the requirement sequence the call renders and, once the model call has
\* started, whether it is a sequence of Requirement
RenderedRequirements ==
    IF route = "process-bid"
    THEN JSONparseText(form.requirementsJson[1]).value.items
    ELSE form.rfp.items[1]

RequirementsRendered ==
    /\ route \in {"process-bid", "analyze-all"}
    /\ EventsOf("modelStart") # <<>>
    /\ route = "process-bid" => IsRequirementSequence(form.requirementsJson[1])

SingleLine(s) == \A i \in 1..Len(Chars(s)) : Chars(s)[i] # "\n"

\* C22 as stated: for every requirement sequence, the block in the
\* instruction has exactly one line per requirement, in the original order,
\* line i being 'i. [category] text'.
C22_OneLinePerRequirement ==
    RequirementsRendered =>
        /\ Len(Lines(prompt.requirementsText)) = Len(RenderedRequirements)
        /\ \A i \in 1..Len(RenderedRequirements) :
              Lines(prompt.requirementsText)[i] =
                  NumberedLine(i, RenderedRequirements[i])

\* C22 amended: the same, for every requirement sequence whose categories
\* and texts contain no line break.
C22_OneLinePerSingleLineRequirement ==
    (/\ RequirementsRendered
     /\ \A i \in 1..Len(RenderedRequirements) :
           /\ SingleLine(RenderedRequirements[i].category)
           /\ SingleLine(RenderedRequirements[i].text)) =>
        /\ Len(Lines(prompt.requirementsText)) = Len(RenderedRequirements)
        /\ \A i \in 1..Len(RenderedRequirements) :
              Lines(prompt.requirementsText)[i] =
                  NumberedLine(i, RenderedRequirements[i])

\* an Assessment call has rendered two requirements as two lines
C22_Witness ==
    /\ route = "process-bid" /\ routePc = "model"
    /\ Len(RenderedRequirements) = 2
    /\ Lines(prompt.requirementsText) =
          << <<"1", ".", " ", "[", "c", "2", "]", " ", "t", "2">>,
             <<"2", ".", " ", "[", "c", "1", "]", " ", "t", "1">> >>

\* a request for file f has been issued to the stage
Requested(history, stage, f) ==
    \E i \in 1..Len(history) : history[i].stage = stage /\ history[i].file = f

\* C23: every valid PDF the user selects or drops (an RFP file while no RFP is
\* loaded, a bid file while an RFP is loaded) eventually causes a request for
\* that file, without further user action, whatever is in flight.  A file id
\* is selected once, so a file that is no longer the selected one and has no
\* request never gets one: the completion of the request that was in flight
\* when the file was selected (not a user action) must leave the file
\* selected or issue its request.  A file selected while a bid request of the
\* current epoch is in flight was selected with the RFP of that request loaded.
C23_SelectedFileIsProcessed ==
    [][\A r \in requests \ requests' :
          /\ (/\ r.stage = "rfp"
              /\ rfpFile # Null
              /\ ~Requested(issued, "rfp", rfpFile[1].id)) =>
                 \/ rfpFile' = rfpFile
                 \/ Requested(issued', "rfp", rfpFile[1].id)
          /\ (/\ r.stage = "bid" /\ Epoch(r.id) = resets
              /\ bidFile # Null
              /\ ~Requested(issued, "bid", bidFile[1].id)) =>
                 \/ bidFile' = bidFile
                 \/ Requested(issued', "bid", bidFile[1].id)]_vars

\* C24: every stage that invokes the model invokes Claude Haiku 4.5, never
\* Claude Sonnet.
C24_AlwaysHaiku ==
    EventsOf("modelStart") # <<>> => prompt.model = "anthropic/claude-haiku-4.5"

\* C25: after a stage request fails, with no further user action, the
\* orchestrator is and stays quiescent: no request in flight, the project as
\* before the request, the failure's message displayed.  Without user action
\* only requests in flight can make a step, so the step of the failure itself
\* must issue no request, leave the project alone and display the message.
C25_QuiescentAfterFailure ==
    [][last' \in Failures =>
          /\ requests' \subseteq requests
          /\ issued' = issued
          /\ UNCHANGED <<rfpData, bids, analysisData>>
          /\ error' # Null]_vars

\* C26: in an Extraction or Assessment call the model call starts only after
\* staging returned a URL, it ends only after it started, and the delete call
\* is issued, for the staged URL, only after every model call that started
\* has completed or failed; nothing follows the delete call.
C26_EventOrder ==
    route \in FileRoutes =>
        \A i \in 1..Len(events) :
            /\ events[i].op = "modelStart" =>
                  \E p \in 1..(i - 1) :
                      /\ events[p].op = "put" /\ events[p].ok
                      /\ events[p].url # ""
            /\ events[i].op = "modelEnd" =>
                  \E s \in 1..(i - 1) : events[s].op = "modelStart"
            /\ events[i].op = "del" =>
                  /\ i = Len(events)
                  /\ \E p \in 1..(i - 1) :
                        /\ events[p].op = "put" /\ events[p].ok
                        /\ events[p].url = events[i].url
                  /\ \A s \in 1..(i - 1) :
                        events[s].op = "modelStart" =>
                            \E e \in (s + 1)..(i - 1) : events[e].op = "modelEnd"

\* a call has ended after staging, a failed model call and the delete call
C26_Witness ==
    /\ route \in FileRoutes /\ routePc = "done"
    /\ [i \in 1..Len(events) |-> events[i].op]
          = <<"put", "modelStart", "modelEnd", "del">>
    /\ ~events[3].ok

\* C27: an Assessment request whose requirements are an empty sequence causes
\* no staging call and no model call and ends with a validation error
\* (status 400).
C27_EmptyRequirementsRejected ==
    (/\ route = "process-bid"
     /\ form.requirementsJson # Null
     /\ JSONparseText(form.requirementsJson[1]).ok
     /\ JSONparseText(form.requirementsJson[1]).value = JArray(<<>>)) =>
        /\ EventsOf("put") = <<>> /\ EventsOf("modelStart") = <<>>
        /\ routePc = "done" => response[1].status = 400

\* the places of the expanded card: item t of category group g
Places ==
    UNION { { <<g, t>> : t \in 1..Len(expandedView[g].items) } :
                g \in 1..Len(expandedView) }

\* the requirement a place displays
Displayed(p) ==
    [text        |-> expandedView[p[1]].items[p[2]][1].text,
     category    |-> expandedView[p[1]].category,
     isSatisfied |-> expandedView[p[1]].items[p[2]][1].isSatisfied,
     reason      |-> expandedView[p[1]].items[p[2]][1].reason]

\* C28: in the expanded view of a bid every assessed requirement of the bid
\* is shown exactly once, with its own verdict and reason: each requirement
\* is displayed as many times as the bid holds it, also when two requirements
\* of the bid have the same text.
C28_EveryRequirementShownOnce ==
    expandedBidIndex # Null =>
        \A q \in AssessedRequirements :
            Cardinality({ p \in Places : Displayed(p) = q })
                = Cardinality({ i \in 1..Len(card) : card[i] = q })

\* C29: when the item in the store cannot be parsed, the first render ends
\* mounted in the Empty state with no error, and the item stays as it is in
\* every step that is neither a successful request nor a Reset.
C29_CorruptStoreIgnored ==
    [][(localStorage # Null /\ ~JSONparse(localStorage[1]).ok) =>
          /\ last' = "mount" =>
                /\ mounted'
                /\ rfpData' = Null /\ bids' = <<>> /\ analysisData' = Null
                /\ error' = Null
          /\ localStorage' # localStorage =>
                last' \in Successes \cup {"reset"}]_vars

\* the page was loaded over an unparsable item, a request has failed since,
\* and the item is still there
C29_Witness ==
    /\ mounted /\ last \in Failures
    /\ localStorage = Some(CorruptText)
    /\ rfpData = Null /\ bids = <<>> /\ analysisData = Null

\* C30: the busy flag of a stage is true exactly while a request of that
\* stage is outstanding: it is set when the request is issued, stays set
\* across a Reset, and is false again once the request has succeeded or
\* failed.
C30_BusyWhileOutstanding ==
    /\ isRfpUploading <=> Outstanding("rfp") # {}
    /\ isBidUploading <=> Outstanding("bid") # {}
    /\ isAnalyzing    <=> Outstanding("analyze") # {}

\* an Assessment issued before the latest Reset has just succeeded and the
\* flag is false again
C30_Witness ==
    /\ last = "bidSuccess" /\ resets > 0
    /\ Len(bids) > 0 /\ Epoch(bids[Len(bids)].req) < resets
    /\ ~isBidUploading /\ Outstanding("bid") = {}
====
